---- MODULE Spec2Model ----
(***************************************************************************)
(* DailyReportClient (src/src/daily copy.ts): the daily trend-report       *)
(* pipeline.  One instance of the client; runDailyReport may be invoked    *)
(* any number of times; every await of the code is a point where another   *)
(* invocation may be interleaved, so each action below is the code that    *)
(* runs between two awaits.                                                *)
(***************************************************************************)
EXTENDS Integers, Sequences, FiniteSets, TLC

\* ---------------------------------------------------------------- bounds
MaxCalls == 2          \* invocations of runDailyReport in one behaviour
MaxUsers == 2          \* longest TWITTER_TARGET_USERS list
MaxTweets == 3         \* longest post list handed to an analytics function

\* ------------------------------------------------------------- constants
DEFAULT_MAX_TWEET_LENGTH == 280
NOW == 100000          \* Date.now() at the time of the recency filter

Invs == 1..MaxCalls
Undefined == [undefined |-> TRUE]   \* JavaScript undefined
AgentId == "agent"

\* TWITTER_TARGET_USERS: unset, or a list of 0..MaxUsers handles
Unset == [set |-> FALSE, list |-> <<>>]
TargetUserLists ==
    {Unset} \cup {[set |-> TRUE, list |-> [k \in 1..n |-> k]] : n \in 0..MaxUsers}

\* A text is the sequence of the lengths of its sentences, each sentence
\* ending with a full stop; its length is the sum.
RECURSIVE SumSeq(_)
SumSeq(s) == IF s = <<>> THEN 0 ELSE Head(s) + SumSeq(Tail(s))

TextLen(t) == SumSeq(t)

Texts == { <<>>, <<280>>, <<281>>, <<140, 140, 140>> }
TweetLengthSettings == {280, 4000}

\* truncateToCompleteSentence(text, maxLength) of @elizaos/core: the text
\* itself when it fits; else the text up to the last full stop within
\* maxLength; else the first maxLength - 3 characters followed by "...".
truncateToCompleteSentence(text, maxLength) ==
    IF TextLen(text) <= maxLength THEN text
    ELSE LET ks == {k \in 1..Len(text) : SumSeq(SubSeq(text, 1, k)) <= maxLength}
         IN  IF ks # {}
             THEN SubSeq(text, 1, CHOOSE k \in ks : \A j \in ks : j <= k)
             ELSE <<maxLength>>

\* stringToUuid: a deterministic, injective key of its argument
stringToUuid(s) == <<"uuid", s>>

\* A Tweet: the fields the pipeline reads.  text is the sequence of its
\* words, hashtags the list of its tags.
Tweet(id, ts, rt, tags, text, likes, retweets) ==
    [id |-> id, timestamp |-> ts, isRetweet |-> rt, hashtags |-> tags,
     text |-> text, likes |-> likes, retweets |-> retweets]

\* What fetchSearchTweets(`from:${username}`) may resolve to: nothing, one
\* fresh original post, or a fresh repost followed by an old original post.
\* The posts of different accounts are different posts.
FetchResults(username) ==
    LET tags == IF username = 1 THEN <<"AI">> ELSE <<"AI", "DeFi">>
    IN  { <<>>,
          << Tweet(10 * username + 1, NOW - 10, FALSE, tags, <<"Great">>, 2, 1) >>,
          << Tweet(10 * username + 2, NOW - 10, TRUE, <<"AI">>, <<"hello">>, 5, 5),
             Tweet(10 * username + 3, 0, FALSE, <<>>, <<"badge">>, 0, 0) >> }

\* the filter of collectTargetUsersTweets
IsRecent(tweet) == NOW - tweet.timestamp < 24 * 60 * 60
IsValidTweet(tweet) == ~tweet.isRetweet /\ IsRecent(tweet)

validTweets(userTweets) == SelectSeq(userTweets, IsValidTweet)

\* the push of the filtered posts alone
PushFiltered(acc, userTweets) ==
    LET valid == validTweets(userTweets)
    IN  IF Len(valid) > 0 THEN acc \o valid ELSE acc

\* the two pushes onto tweetsByUser after a fetch
PushFetched(acc, userTweets) ==
    LET valid == validTweets(userTweets)
    IN  (IF Len(valid) > 0 THEN acc \o valid ELSE acc) \o userTweets

\* ------------------------------------------------------------ analytics
\* the number of occurrences of x in seq
Count(seq, x) == Cardinality({k \in 1..Len(seq) : seq[k] = x})

\* tweets.flatMap(t => t.hashtags)
RECURSIVE FlatHashtags(_)
FlatHashtags(tweets) ==
    IF tweets = <<>> THEN <<>>
    ELSE Head(tweets).hashtags \o FlatHashtags(Tail(tweets))

\* the keys the reduce adds to the accumulator object, in insertion order
RECURSIVE InsertionOrder(_, _)
InsertionOrder(tags, seen) ==
    IF tags = <<>> THEN <<>>
    ELSE IF Head(tags) \in seen THEN InsertionOrder(Tail(tags), seen)
         ELSE <<Head(tags)>> \o InsertionOrder(Tail(tags), seen \cup {Head(tags)})

\* A property key that is a canonical numeric string is an integer index of
\* the object: its value, or -1 for any other key.
IndexValue(tag) ==
    CASE tag = "2024" -> 2024
      [] tag = "7" -> 7
      [] OTHER -> -1
IsIntegerKey(tag) == IndexValue(tag) >= 0
IsStringKey(tag) == ~IsIntegerKey(tag)

\* integer keys in ascending numeric order
RECURSIVE Ascending(_)
Ascending(keys) ==
    IF keys = {} THEN <<>>
    ELSE LET least == CHOOSE k \in keys :
                          \A j \in keys : IndexValue(k) <= IndexValue(j)
         IN  <<least>> \o Ascending(keys \ {least})

\* the one member of a set of one member.  Below, { e : x \in {v} } gives the
\* intermediate result v the name x within e, as a const declaration does.
TheOne(S) == CHOOSE x \in S : TRUE

\* the own keys of the accumulator object in the order Object.entries lists
\* them: integer keys first, ascending, then the other keys in the order in
\* which they were inserted
OwnKeys(inserted) ==
    Ascending({inserted[k] : k \in {j \in 1..Len(inserted) :
                                        IsIntegerKey(inserted[j])}})
        \o SelectSeq(inserted, IsStringKey)

\* Object.entries(hashtagCount): each own key with its count
ObjectEntries(tags) ==
    TheOne({ [k \in 1..Len(keys) |->
                 [tag |-> keys[k], count |-> Count(tags, keys[k])]] :
             keys \in {OwnKeys(InsertionOrder(tags, {}))} })

\* entries.sort((a, b) => b[1] - a[1]): stable, descending by count
RECURSIVE SortByCount(_)
SortByCount(entries) ==
    IF entries = <<>> THEN <<>>
    ELSE LET e == entries[Len(entries)]
             NotBelow(x) == x.count >= e.count
             Below(x) == x.count < e.count
         IN  TheOne({ SelectSeq(sorted, NotBelow) \o <<e>> \o SelectSeq(sorted, Below) :
                      sorted \in {SortByCount(SubSeq(entries, 1, Len(entries) - 1))} })

\* the default of the parameter limit of getTopHashtags
DefaultLimit == 3

\* .slice(0, limit).map(([tag]) => tag)
SliceTags(sorted, limit) ==
    [k \in 1..(IF Len(sorted) < limit THEN Len(sorted) ELSE limit) |-> sorted[k].tag]

\* getTopHashtags(tweets, limit)
getTopHashtags(tweets, limit) ==
    TheOne({ TheOne({ SliceTags(sorted, limit) :
                      sorted \in {SortByCount(ObjectEntries(tags))} }) :
             tags \in {FlatHashtags(tweets)} })

\* t.text.toLowerCase(), word by word
toLowerCase(word) ==
    CASE word = "Great" -> "great"
      [] word = "AWESOME" -> "awesome"
      [] OTHER -> word

\* the alternatives of a pattern that occur in a lower-case word (a regular
\* expression matches anywhere in the text, also inside a word)
Occurring(word) ==
    CASE word = "great" -> {"great"}
      [] word = "awesome" -> {"awesome"}
      [] word = "bad" -> {"bad"}
      [] word = "badge" -> {"bad"}
      [] word = "terrible" -> {"terrible"}
      [] OTHER -> {}

\* pattern.test(text)
Test(pattern, text) ==
    \E k \in 1..Len(text) : Occurring(toLowerCase(text[k])) \cap pattern # {}

PositivePattern == {"great", "awesome", "amazing"}
NegativePattern == {"bad", "terrible", "disappointing"}

\* the score with the negative pattern tested first
ScoreNegativeFirst(tweet) ==
    IF Test(NegativePattern, tweet.text) THEN -1
    ELSE IF Test(PositivePattern, tweet.text) THEN 1
    ELSE 0

\* the score analyzeSentiment gives a tweet
Score(tweet) ==
    IF Test(PositivePattern, tweet.text) THEN 1
    ELSE IF Test(NegativePattern, tweet.text) THEN -1
    ELSE 0

\* analyzeSentiment(tweets)
analyzeSentiment(tweets) ==
    LET scores == [k \in 1..Len(tweets) |-> Score(tweets[k])]
    IN  [positive |-> Cardinality({k \in 1..Len(scores) : scores[k] > 0}),
         neutral |-> Cardinality({k \in 1..Len(scores) : scores[k] = 0}),
         negative |-> Cardinality({k \in 1..Len(scores) : scores[k] < 0})]

\* the initial accumulator of findMostEngagedTweet
Sentinel == [likes |-> 0, retweets |-> 0]

\* the reducer keeping the accumulator on a tie
KeepOnTie(prev, current) ==
    IF prev.likes + prev.retweets >= current.likes + current.retweets
    THEN prev ELSE current

\* the reducer of findMostEngagedTweet
MoreEngaged(prev, current) ==
    IF prev.likes + prev.retweets > current.likes + current.retweets
    THEN prev ELSE current

\* tweets.reduce(MoreEngaged, prev)
RECURSIVE Reduce(_, _)
Reduce(prev, tweets) ==
    IF tweets = <<>> THEN prev
    ELSE Reduce(MoreEngaged(prev, Head(tweets)), Tail(tweets))

\* findMostEngagedTweet(tweets)
findMostEngagedTweet(tweets) == Reduce(Sentinel, tweets)

\* the analysis generateTrendSummary computes
Analysis(tweets) ==
    [totalTweets |-> Len(tweets),
     topHashtags |-> getTopHashtags(tweets, DefaultLimit),
     sentiment |-> analyzeSentiment(tweets),
     mostEngagedTweet |-> findMostEngagedTweet(tweets)]

VARIABLES
    TWITTER_TARGET_USERS,  \* twitterConfig.TWITTER_TARGET_USERS
    MAX_TWEET_LENGTH,      \* twitterConfig.MAX_TWEET_LENGTH
    isDryRun,              \* twitterConfig.TWITTER_DRY_RUN
    isProcessing,          \* the in-flight flag
    calls,                 \* invocations of runDailyReport so far
    pc,                    \* where each invocation stands
    frame,                 \* the local variables of each invocation
    nextId,                \* next identifier the platform assigns
    lastPost,              \* cache entry twitter/<user>/lastPost
    tweetCache,            \* client.cacheTweet
    room,                  \* ensureRoomExists / ensureParticipantInRoom
    memories,              \* messageManager.createMemory
    log,                   \* per invocation: the calls it made, how it ended
    posts,                 \* a post list handed to an analytics function
    answer                 \* what the analytics function returned for it

config == <<TWITTER_TARGET_USERS, MAX_TWEET_LENGTH, isDryRun>>
stores == <<lastPost, tweetCache, room, memories>>
analytics == <<posts, answer>>
vars == <<config, analytics, isProcessing, calls, pc, frame, nextId, stores, log>>

\* the locals of an invocation that is not running
NoFrame ==
    [ idx |-> 0,                \* position of the for-loop over TARGET_USERS
      tweetsByUser |-> <<>>,    \* the list collectTargetUsersTweets builds
      fetched |-> <<>>,         \* how each fetch of the loop settled so far
      analysis |-> Undefined,   \* the analysis of generateTrendSummary
      summary |-> Undefined,    \* the output of generateTrendSummary
      content |-> <<>>,         \* reportContent, the text handed to postTweet
      tweet |-> Undefined ]     \* the tweet object postTweet builds

\* no analytics function has been applied
NoAnswer == [fn |-> "none"]

\* what is observed of an invocation: the collaborator calls it issued
NoLog ==
    [ fetches |-> <<>>,         \* fetchSearchTweets requests, by account
      genCalls |-> <<>>,        \* generateText calls
      summary |-> Undefined,    \* what generateTrendSummary returned
      pubCalls |-> <<>>,        \* sendNoteTweet / sendTweet calls and answers
      attempts |-> <<>>,        \* cache, room and memory writes that were called
      writes |-> <<>>,          \* cache, room and memory writes that took effect
      outcome |-> "none" ]      \* "skipped", "success" or "failed" once returned

Init ==
    /\ TWITTER_TARGET_USERS \in TargetUserLists
    /\ MAX_TWEET_LENGTH \in TweetLengthSettings
    /\ isDryRun \in BOOLEAN
    /\ isProcessing = FALSE
    /\ calls = 0
    /\ pc = [i \in Invs |-> "idle"]
    /\ frame = [i \in Invs |-> NoFrame]
    /\ nextId = 1
    /\ lastPost = Undefined
    /\ tweetCache = {}
    /\ room = {}
    /\ memories = {}
    /\ log = [i \in Invs |-> NoLog]
    /\ posts = <<>>
    /\ answer = NoAnswer

\* ------------------------------------------------------- runDailyReport
\* the guard without the in-flight test
GuardIgnoresFlag(processing, users) == ~users.set

\* the guard of runDailyReport: `isProcessing || !TWITTER_TARGET_USERS`
\* (an empty array is truthy in JavaScript, so only an unset list rejects)
GuardRejects(processing, users) == processing \/ ~users.set

\* the flag cleared at the end of the try block instead of in finally
FinallyOnSuccessOnly(i, o, lg) ==
    /\ isProcessing' = IF o = "success" THEN FALSE ELSE isProcessing
    /\ pc' = [pc EXCEPT ![i] = "returned"]
    /\ frame' = [frame EXCEPT ![i] = NoFrame]
    /\ log' = [log EXCEPT ![i] = [lg EXCEPT !.outcome = o]]

\* finally { this.isProcessing = false }, reached after the success log
\* ("success") or after the catch block ("failed"); the invocation returns
\* and its locals are gone.  lg is the invocation's log so far.
Finally(i, o, lg) ==
    /\ isProcessing' = FALSE
    /\ pc' = [pc EXCEPT ![i] = "returned"]
    /\ frame' = [frame EXCEPT ![i] = NoFrame]
    /\ log' = [log EXCEPT ![i] = [lg EXCEPT !.outcome = o]]

\* a catch block that logs and throws the error again: the invocation ends
\* as a rejected promise
RunCatchRethrows(i, lg) == Finally(i, "rejected", lg)

\* an awaited collaborator call rejects inside the try block of
\* runDailyReport: catch logs, finally clears the flag
RunCatch(i, lg) == Finally(i, "failed", lg)

\* generateTrendSummary up to its first await: the analysis is computed from
\* the collected tweets and runtime.composeState is called; locals are the
\* locals of the invocation when collectTargetUsersTweets returns
BeginTrendSummary(i, locals) ==
    /\ frame' = [frame EXCEPT ![i] =
                   [locals EXCEPT !.analysis = Analysis(locals.tweetsByUser)]]
    /\ pc' = [pc EXCEPT ![i] = "composeState1"]

\* the call of fetchSearchTweets for TARGET_USERS[k]; locals are the locals
\* of the invocation at that point
IssueFetch(i, k, locals, lg) ==
    /\ frame' = [frame EXCEPT ![i] = [locals EXCEPT !.idx = k]]
    /\ log' = [lg EXCEPT ![i].fetches = Append(@, TWITTER_TARGET_USERS.list[k])]
    /\ pc' = [pc EXCEPT ![i] = "fetch"]

\* Observation only, not program state: when a run starts, the logs of the
\* invocations that returned before it are dropped, so that log covers the
\* latest run and the invocations made since it started.
Forget(lg) == [j \in Invs |-> IF pc[j] = "returned" THEN NoLog ELSE lg[j]]

\* runDailyReport is invoked: the guard, then the flag is set and
\* collectTargetUsersTweets runs up to its first await
Call(i) ==
    /\ calls < MaxCalls
    /\ i = calls + 1
    /\ calls' = i
    /\ IF GuardRejects(isProcessing, TWITTER_TARGET_USERS)
       THEN /\ pc' = [pc EXCEPT ![i] = "returned"]
            /\ log' = [log EXCEPT ![i].outcome = "skipped"]
            /\ UNCHANGED <<isProcessing, frame>>
       ELSE /\ isProcessing' = TRUE
            /\ IF Len(TWITTER_TARGET_USERS.list) > 0
               THEN IssueFetch(i, 1, NoFrame, Forget(log))
               ELSE /\ BeginTrendSummary(i, NoFrame)
                    /\ log' = Forget(log)
    /\ UNCHANGED <<config, analytics, nextId, stores>>

\* --------------------------------------------- collectTargetUsersTweets
\* the next iteration of the for-loop, or the end of the collection
NextUser(i, locals) ==
    IF locals.idx < Len(TWITTER_TARGET_USERS.list)
    THEN IssueFetch(i, locals.idx + 1, locals, log)
    ELSE /\ BeginTrendSummary(i, locals)
         /\ UNCHANGED log

\* how a fetch settled: it threw, or resolved to the tweets
FetchOutcome(threw, tweets) == [threw |-> threw, tweets |-> tweets]

\* fetchSearchTweets resolves: filter, push, then wait() is called
FetchReturn(i) ==
    /\ pc[i] = "fetch"
    /\ \E userTweets \in FetchResults(TWITTER_TARGET_USERS.list[frame[i].idx]) :
          frame' = [frame EXCEPT
                      ![i].tweetsByUser = PushFetched(@, userTweets),
                      ![i].fetched = Append(@, FetchOutcome(FALSE, userTweets))]
    /\ pc' = [pc EXCEPT ![i] = "wait"]
    /\ UNCHANGED <<config, analytics, isProcessing, calls, nextId, stores, log>>

\* a rejected fetch ending the loop instead of continuing it
FetchThrowAborts(i) ==
    /\ pc[i] = "fetch"
    /\ BeginTrendSummary(i, [frame[i] EXCEPT
                               !.fetched = Append(@, FetchOutcome(TRUE, <<>>))])
    /\ UNCHANGED <<config, analytics, isProcessing, calls, nextId, stores, log>>

\* fetchSearchTweets rejects: the catch block logs and continues the loop
FetchThrow(i) ==
    /\ pc[i] = "fetch"
    /\ NextUser(i, [frame[i] EXCEPT !.fetched = Append(@, FetchOutcome(TRUE, <<>>))])
    /\ UNCHANGED <<config, analytics, isProcessing, calls, nextId, stores>>

\* wait() resolves: the loop goes on
WaitReturn(i) ==
    /\ pc[i] = "wait"
    /\ NextUser(i, frame[i])
    /\ UNCHANGED <<config, analytics, isProcessing, calls, nextId, stores>>

\* ------------------- generateTrendSummary / generateReportContent
\* what generateText may answer to the trend-extraction prompt
TrendOutputs == [fenced : BOOLEAN, parseable : BOOLEAN]

\* cleanJsonResponse of @elizaos/core strips the code fences and line breaks
\* of the text; it does not parse it
cleanJsonResponse(text) == [text EXCEPT !.fenced = FALSE]

\* generateText settles: the answer to the latest call
Settled(genlog, o) == [genlog EXCEPT ![Len(genlog)].outcome = o]

\* runtime.composeState resolves: composeContext, then generateText is called
ComposeStateReturn(i) ==
    /\ pc[i] \in {"composeState1", "composeState2"}
    /\ pc' = [pc EXCEPT ![i] = IF pc[i] = "composeState1" THEN "generate1"
                                                          ELSE "generate2"]
    /\ log' = [log EXCEPT ![i].genCalls =
                 Append(@, [call |-> IF pc[i] = "composeState1" THEN "trend"
                                                                 ELSE "draft",
                            outcome |-> "pending"])]
    /\ UNCHANGED <<config, analytics, isProcessing, calls, frame, nextId, stores>>

\* runtime.composeState rejects
ComposeStateThrow(i) ==
    /\ pc[i] \in {"composeState1", "composeState2"}
    /\ RunCatch(i, log[i])
    /\ UNCHANGED <<config, analytics, calls, nextId, stores>>

\* generateText of generateTrendSummary resolves: cleanJsonResponse, then
\* generateReportContent calls runtime.composeState
TrendReturn(i) ==
    /\ pc[i] = "generate1"
    /\ \E out \in TrendOutputs :
          /\ frame' = [frame EXCEPT ![i] =
                         [NoFrame EXCEPT !.summary = cleanJsonResponse(out)]]
          /\ log' = [log EXCEPT ![i].genCalls = Settled(@, "returned"),
                                ![i].summary = cleanJsonResponse(out)]
    /\ pc' = [pc EXCEPT ![i] = "composeState2"]
    /\ UNCHANGED <<config, analytics, isProcessing, calls, nextId, stores>>

\* a rejected trend extraction answered with an empty summary instead of
\* aborting the run
GenerateThrowContinues(i) ==
    /\ pc[i] \in {"generate1", "generate2"}
    /\ IF pc[i] = "generate1"
       THEN /\ frame' = [frame EXCEPT ![i] =
                   [NoFrame EXCEPT !.summary = [fenced |-> FALSE, parseable |-> FALSE]]]
            /\ pc' = [pc EXCEPT ![i] = "composeState2"]
            /\ log' = [log EXCEPT ![i].genCalls = Settled(@, "threw")]
            /\ UNCHANGED isProcessing
       ELSE RunCatch(i, [log[i] EXCEPT !.genCalls = Settled(@, "threw")])
    /\ UNCHANGED <<config, analytics, calls, nextId, stores>>

\* generateText rejects (either call)
GenerateThrow(i) ==
    /\ pc[i] \in {"generate1", "generate2"}
    /\ RunCatch(i, [log[i] EXCEPT !.genCalls = Settled(@, "threw")])
    /\ UNCHANGED <<config, analytics, calls, nextId, stores>>

\* ------------------------------------------------------------ postTweet
Thrown == [throws |-> TRUE]
Payload(id) == [rest_id |-> id]

\* what the platform may answer to a publication call
NoteResponses == {"errors", "result", "noresult"}
StandardResponses == {"result", "noresult"}
PlatformOutcome(res) ==
    CASE res = "errors" -> "rejected"
      [] res = "result" -> "accepted"
      [] res = "noresult" -> "bad"

\* the routing test with >= in place of >
RouteLongFormOffByOne(text) == TextLen(text) >= DEFAULT_MAX_TWEET_LENGTH

\* postTweet: `tweetTextForPosting.length > DEFAULT_MAX_TWEET_LENGTH`
RouteLongForm(text) == TextLen(text) > DEFAULT_MAX_TWEET_LENGTH

\* the fallback taken whatever sendNoteTweet answered
NoteAlwaysFallsBack(res) == TRUE

\* handleNoteTweet: `noteTweetResult.errors && noteTweetResult.errors.length > 0`
NoteRejected(res) == res = "errors"

\* createTweetObject reading tweetResult?.rest_id: no TypeError, an
\* undefined identifier (0) instead
createTweetObjectLenient(tweetResult) ==
    IF tweetResult = Undefined THEN [id |-> 0] ELSE [id |-> tweetResult.rest_id]

\* createTweetObject reads tweetResult.rest_id and tweetResult.legacy: a
\* TypeError when tweetResult is undefined
createTweetObject(tweetResult) ==
    IF tweetResult = Undefined THEN Thrown ELSE [id |-> tweetResult.rest_id]

\* a publication call is issued through client.requestQueue; the platform
\* answers it (id: the identifier of the post it created, 0 for none)
NewCall(kind, text) == [kind |-> kind, text |-> text, outcome |-> "pending", id |-> 0]
Answered(calllog, res, id) ==
    [calllog EXCEPT ![Len(calllog)].outcome = PlatformOutcome(res),
                    ![Len(calllog)].id = IF res = "result" THEN id ELSE 0]
Failed(calllog) == [calllog EXCEPT ![Len(calllog)].outcome = "threw"]

\* the catch block of postTweet logs the error and returns normally, so
\* postDailyReport returns, runDailyReport logs "Daily report published
\* successfully" and its finally block runs
PostTweetCatch(i, lg) == Finally(i, "success", lg)

\* postTweet returns after processAndCacheTweet: the same success path
PostTweetDone(i, lg) == Finally(i, "success", lg)

\* postTweet after the publication returned tweetResult: createTweetObject,
\* then processAndCacheTweet up to its first await (cacheManager.set)
AfterPublish(i, tweetResult, lg) ==
    LET t == createTweetObject(tweetResult)
    IN  IF t = Thrown
        THEN PostTweetCatch(i, lg)
        ELSE /\ frame' = [frame EXCEPT ![i].tweet = t]
             /\ pc' = [pc EXCEPT ![i] = "lastPost"]
             /\ log' = [log EXCEPT ![i] = [lg EXCEPT !.attempts = <<"lastPost">>]]
             /\ UNCHANGED isProcessing

\* generateText of generateReportContent resolves: postDailyReport calls
\* postTweet, which routes the text and issues the publication call
DraftReturn(i) ==
    /\ pc[i] = "generate2"
    /\ \E text \in Texts :
          /\ frame' = [frame EXCEPT ![i] = [NoFrame EXCEPT !.content = text]]
          /\ IF RouteLongForm(text)
             THEN /\ log' = [log EXCEPT ![i].genCalls = Settled(@, "returned"),
                                         ![i].pubCalls = Append(@, NewCall("note", text))]
                  /\ pc' = [pc EXCEPT ![i] = "sendNoteTweet"]
             ELSE /\ log' = [log EXCEPT ![i].genCalls = Settled(@, "returned"),
                                         ![i].pubCalls =
                                             Append(@, NewCall("standard", text))]
                  /\ pc' = [pc EXCEPT ![i] = "sendTweet"]
    /\ UNCHANGED <<config, analytics, isProcessing, calls, nextId, stores>>

\* sendNoteTweet resolves (handleNoteTweet)
NoteReturn(i) ==
    /\ pc[i] = "sendNoteTweet"
    /\ \E res \in NoteResponses :
          LET answered == Answered(log[i].pubCalls, res, nextId)
          IN  /\ nextId' = IF res = "result" THEN nextId + 1 ELSE nextId
              /\ IF NoteRejected(res)
                 THEN LET truncateContent ==
                            truncateToCompleteSentence(frame[i].content,
                                                       MAX_TWEET_LENGTH)
                      IN  /\ log' = [log EXCEPT ![i].pubCalls =
                                Append(answered, NewCall("standard", truncateContent))]
                          /\ pc' = [pc EXCEPT ![i] = "sendTweet"]
                          /\ UNCHANGED <<isProcessing, frame>>
                 ELSE AfterPublish(i, IF res = "result" THEN Payload(nextId)
                                                        ELSE Undefined,
                                   [log[i] EXCEPT !.pubCalls = answered])
    /\ UNCHANGED <<config, analytics, calls, stores>>

\* sendNoteTweet rejects: handleNoteTweet rethrows, postTweet catches
NoteThrow(i) ==
    /\ pc[i] = "sendNoteTweet"
    /\ PostTweetCatch(i, [log[i] EXCEPT !.pubCalls = Failed(@)])
    /\ UNCHANGED <<config, analytics, calls, nextId, stores>>

\* sendTweet resolves (sendStandardTweet): the result, or undefined when the
\* body lacks data.create_tweet.tweet_results.result
StandardReturn(i) ==
    /\ pc[i] = "sendTweet"
    /\ \E res \in StandardResponses :
          /\ nextId' = IF res = "result" THEN nextId + 1 ELSE nextId
          /\ AfterPublish(i, IF res = "result" THEN Payload(nextId) ELSE Undefined,
                          [log[i] EXCEPT !.pubCalls = Answered(@, res, nextId)])
    /\ UNCHANGED <<config, analytics, calls, stores>>

\* sendTweet rejects: sendStandardTweet rethrows, postTweet catches
StandardThrow(i) ==
    /\ pc[i] = "sendTweet"
    /\ PostTweetCatch(i, [log[i] EXCEPT !.pubCalls = Failed(@)])
    /\ UNCHANGED <<config, analytics, calls, nextId, stores>>

\* -------------------------------------------------- processAndCacheTweet
SideEffects == <<"lastPost", "cacheTweet", "ensureRoom", "ensureParticipant",
                 "createMemory">>
SideEffectPcs == {SideEffects[k] : k \in 1..Len(SideEffects)}
Position(step) == CHOOSE k \in 1..Len(SideEffects) : SideEffects[k] = step

\* the awaited write resolves: it took effect; the next one is called, or
\* processAndCacheTweet and postTweet return
SideEffectReturn(i) ==
    /\ pc[i] \in SideEffectPcs
    /\ lastPost' = IF pc[i] = "lastPost" THEN [id |-> frame[i].tweet.id] ELSE lastPost
    /\ tweetCache' = IF pc[i] = "cacheTweet" THEN tweetCache \cup {frame[i].tweet.id}
                                              ELSE tweetCache
    /\ room' = CASE pc[i] = "ensureRoom" -> room \cup {"room"}
                 [] pc[i] = "ensureParticipant" -> room \cup {"participant"}
                 [] OTHER -> room
    /\ memories' = IF pc[i] = "createMemory"
                   THEN memories \cup
                        {[id |-> stringToUuid(<<frame[i].tweet.id, AgentId>>),
                          text |-> frame[i].content]}
                   ELSE memories
    /\ LET written == [log[i] EXCEPT !.writes = Append(@, pc[i])]
       IN  IF Position(pc[i]) < Len(SideEffects)
           THEN /\ pc' = [pc EXCEPT ![i] = SideEffects[Position(pc[i]) + 1]]
                /\ log' = [log EXCEPT ![i] =
                             [written EXCEPT !.attempts =
                                 Append(@, SideEffects[Position(pc[i]) + 1])]]
                /\ UNCHANGED <<isProcessing, frame>>
           ELSE PostTweetDone(i, written)
    /\ UNCHANGED <<config, analytics, calls, nextId>>

\* the awaited write rejects: nothing is written, postTweet catches
SideEffectThrow(i) ==
    /\ pc[i] \in SideEffectPcs
    /\ PostTweetCatch(i, log[i])
    /\ UNCHANGED <<config, analytics, calls, nextId, stores>>

\* ------------------------------------------------------- specification
Next ==
    \E i \in Invs :
        \/ Call(i)
        \/ FetchReturn(i)
        \/ FetchThrow(i)
        \/ WaitReturn(i)
        \/ ComposeStateReturn(i)
        \/ ComposeStateThrow(i)
        \/ TrendReturn(i)
        \/ GenerateThrow(i)
        \/ DraftReturn(i)
        \/ NoteReturn(i)
        \/ NoteThrow(i)
        \/ StandardReturn(i)
        \/ StandardThrow(i)
        \/ SideEffectReturn(i)
        \/ SideEffectThrow(i)

Spec == Init /\ [][Next]_vars

\* every awaited call settles (resolves or rejects) and the event loop then
\* runs the continuation: a started invocation keeps taking steps
Step(i) ==
    \/ FetchReturn(i)
    \/ FetchThrow(i)
    \/ WaitReturn(i)
    \/ ComposeStateReturn(i)
    \/ ComposeStateThrow(i)
    \/ TrendReturn(i)
    \/ GenerateThrow(i)
    \/ DraftReturn(i)
    \/ NoteReturn(i)
    \/ NoteThrow(i)
    \/ StandardReturn(i)
    \/ StandardThrow(i)
    \/ SideEffectReturn(i)
    \/ SideEffectThrow(i)

\* the behaviours of a client configured with at least one account
InitConfigured == Init /\ Len(TWITTER_TARGET_USERS.list) > 0
SpecConfigured == InitConfigured /\ [][Next]_vars

FairSpec == Spec /\ \A i \in Invs : WF_vars(Step(i))

\* ------------------------------------------- the analytics functions
\* The three analytics functions are pure: they are applied to post lists
\* of up to MaxTweets posts drawn from SamplePosts.  The sample has posts
\* with equal engagement, a post without engagement, texts matching either
\* lexicon, both and neither, and hashtags that repeat across posts.
SamplePosts ==
    { Tweet(1, NOW - 10, FALSE, <<"AI">>, <<"Great">>, 2, 1),
      Tweet(2, NOW - 10, FALSE, <<"AI", "DeFi">>, <<"badge">>, 1, 2),
      Tweet(3, NOW - 10, FALSE, <<"2024">>, <<"hello">>, 0, 0),
      Tweet(4, NOW - 10, FALSE, <<"DeFi", "7">>, <<"bad", "AWESOME">>, 5, 0) }

PostLists == UNION {[1..n -> SamplePosts] : n \in 0..MaxTweets}
Limits == 0..DefaultLimit

AnalyticsInit ==
    /\ posts \in PostLists
    /\ answer = NoAnswer
    /\ TWITTER_TARGET_USERS = Unset
    /\ MAX_TWEET_LENGTH = DEFAULT_MAX_TWEET_LENGTH
    /\ isDryRun = FALSE
    /\ isProcessing = FALSE
    /\ calls = 0
    /\ pc = [i \in Invs |-> "idle"]
    /\ frame = [i \in Invs |-> NoFrame]
    /\ nextId = 1
    /\ lastPost = Undefined
    /\ tweetCache = {}
    /\ room = {}
    /\ memories = {}
    /\ log = [i \in Invs |-> NoLog]

Program == <<config, isProcessing, calls, pc, frame, nextId, stores, log>>

ApplyTopHashtags ==
    /\ \E limit \in Limits :
          answer' = [fn |-> "getTopHashtags", limit |-> limit,
                     value |-> getTopHashtags(posts, limit)]
    /\ UNCHANGED <<posts, Program>>

ApplySentiment ==
    /\ answer' = [fn |-> "analyzeSentiment", value |-> analyzeSentiment(posts)]
    /\ UNCHANGED <<posts, Program>>

ApplyMostEngaged ==
    /\ answer' = [fn |-> "findMostEngagedTweet",
                  value |-> findMostEngagedTweet(posts)]
    /\ UNCHANGED <<posts, Program>>

AnalyticsNext == ApplyTopHashtags \/ ApplySentiment \/ ApplyMostEngaged

AnalyticsSpec == AnalyticsInit /\ [][AnalyticsNext]_vars

\* =============================================================== claims
Active(i) == pc[i] \notin {"idle", "returned"}
ActiveRuns == {i \in Invs : Active(i)}
Returned(i) == pc[i] = "returned"
AcceptedCalls(i) ==
    {k \in 1..Len(log[i].pubCalls) : log[i].pubCalls[k].outcome = "accepted"}
DidNothing(i) ==
    /\ log[i].fetches = <<>>
    /\ log[i].genCalls = <<>>
    /\ log[i].pubCalls = <<>>
    /\ log[i].writes = <<>>

\* C1 -- Single-flight: at most one pipeline run is active at a time; an
\* invocation of runDailyReport that arrives while isProcessing is true
\* returns at once, fetches, generates, publishes and writes nothing, changes
\* no state of the client and is not queued (it never becomes active).
C1_SingleFlight ==
    /\ [](Cardinality(ActiveRuns) <= 1)
    /\ [](\A i \in Invs : log[i].outcome = "skipped" => Returned(i) /\ DidNothing(i))
    /\ [][(isProcessing /\ calls' = calls + 1) =>
            /\ pc' = [pc EXCEPT ![calls'] = "returned"]
            /\ log' = [log EXCEPT ![calls'].outcome = "skipped"]
            /\ UNCHANGED <<isProcessing, frame, nextId, stores>>]_vars

\* C1 witness: an invocation was dropped while a run was publishing
C1_Witness ==
    \E i, j \in Invs :
        /\ pc[i] = "sendTweet"
        /\ isProcessing
        /\ TWITTER_TARGET_USERS.set
        /\ j > i
        /\ log[j].outcome = "skipped"

\* C2 -- No permanent lockout: the flag is set from before the first fetch
\* for as long as a run is active; every run that starts returns, whichever
\* stage fails or succeeds, and clears the flag on returning; so whenever no
\* run is active the flag is false, and an invocation made then (with a
\* configured account list) is accepted.
C2_NoLockout ==
    /\ [](\A i \in Invs : Active(i) => isProcessing)
    /\ [](ActiveRuns = {} => ~isProcessing)
    /\ \A i \in Invs : Active(i) ~> (Returned(i) /\ ~isProcessing)
    /\ [][(calls' = calls + 1 /\ ActiveRuns = {} /\ TWITTER_TARGET_USERS.set) =>
            pc'[calls'] \notin {"idle", "returned"} /\ isProcessing']_vars

\* C2 witness: a run failed in generation, the flag is clear again
C2_Witness ==
    \E i \in Invs :
        /\ log[i].outcome = "failed"
        /\ log[i].fetches # <<>>
        /\ log[i].genCalls # <<>>
        /\ ActiveRuns = {}
        /\ ~isProcessing

\* C3 -- With an empty monitored-account list (length zero or unset)
\* runDailyReport is a no-op: no fetch, no generateText call, no publication
\* attempt, no cache or memory write.
C3_EmptyListNoOp ==
    \A i \in Invs : TWITTER_TARGET_USERS.list = <<>> => DidNothing(i)

\* C4 -- Any publication failure surfaces as a failed run: a run ends on
\* the success path only if its last publication call was accepted with a
\* result payload.
C4_PublicationFailureFailsRun ==
    \A i \in Invs :
        log[i].outcome = "success" =>
            /\ log[i].pubCalls # <<>>
            /\ log[i].pubCalls[Len(log[i].pubCalls)].outcome = "accepted"

\* C5 -- Stage-fatal abort: once a generateText call (trend extraction or
\* draft generation) has failed, the run has returned on its failure path,
\* made no later generation call, no publication call and no write; the step
\* in which it fails clears the flag, leaves no run active and invokes
\* nothing.
GenThrew(i) ==
    \E k \in 1..Len(log[i].genCalls) : log[i].genCalls[k].outcome = "threw"

C5_GenerationFailureAborts ==
    /\ [](\A i \in Invs :
            GenThrew(i) =>
                /\ Returned(i)
                /\ log[i].outcome = "failed"
                /\ log[i].genCalls[Len(log[i].genCalls)].outcome = "threw"
                /\ \A k \in 1..(Len(log[i].genCalls) - 1) :
                       log[i].genCalls[k].outcome = "returned"
                /\ log[i].pubCalls = <<>>
                /\ log[i].writes = <<>>)
    /\ [][\A i \in Invs :
            (~GenThrew(i) /\ GenThrew(i)') =>
                /\ ~isProcessing'
                /\ ActiveRuns' = {}
                /\ calls' = calls
                /\ UNCHANGED <<nextId, stores>>]_vars

\* C5 witness: the draft generation failed after the trend extraction
\* succeeded, and the run is over
C5_Witness ==
    \E i \in Invs :
        /\ Len(log[i].genCalls) = 2
        /\ log[i].genCalls[2] = [call |-> "draft", outcome |-> "threw"]
        /\ log[i].outcome = "failed"
        /\ ~isProcessing

\* C6 -- At most one digest is published per run: of the publication calls
\* of one run (at most two), the platform accepts at most one.
C6_AtMostOnePublished ==
    \A i \in Invs :
        /\ Cardinality(AcceptedCalls(i)) <= 1
        /\ Len(log[i].pubCalls) <= 2

\* C6 witness: long-form rejected, then the fallback accepted
C6_Witness ==
    \E i \in Invs :
        /\ Len(log[i].pubCalls) = 2
        /\ log[i].pubCalls[1].kind = "note"
        /\ log[i].pubCalls[1].outcome = "rejected"
        /\ log[i].pubCalls[2].outcome = "accepted"

\* C7 -- No persisted side effect without a publication: a run writes to
\* the last-post cache, the tweet cache, the room state or the memory store
\* only after one of its publication calls returned a result payload.
C7_NoWriteBeforePublication ==
    /\ [](\A i \in Invs : log[i].writes # <<>> => AcceptedCalls(i) # {})
    /\ [][stores' # stores =>
            \E i \in Invs :
                /\ Active(i)
                /\ AcceptedCalls(i) # {}
                /\ log'[i].writes # log[i].writes]_vars

\* C7 witness: a run whose publication failed has returned and every store
\* is as it was at the start
C7_Witness ==
    \E i \in Invs :
        /\ Returned(i)
        /\ log[i].pubCalls # <<>>
        /\ AcceptedCalls(i) = {}
        /\ log[i].writes = <<>>
        /\ lastPost = Undefined
        /\ tweetCache = {}
        /\ room = {}
        /\ memories = {}

\* C8 -- Publication routing: a text longer than DEFAULT_MAX_TWEET_LENGTH
\* goes first to long-form publication; a text at or below it goes to
\* standard publication and no long-form call is made for it.
C8_Routing ==
    \A i \in Invs :
        log[i].pubCalls # <<>> =>
            LET first == log[i].pubCalls[1]
            IN  IF TextLen(first.text) > DEFAULT_MAX_TWEET_LENGTH
                THEN first.kind = "note"
                ELSE \A k \in 1..Len(log[i].pubCalls) :
                         log[i].pubCalls[k].kind = "standard"

\* C8 witness: a text one character over the ceiling went to long-form
C8_Witness ==
    \E i \in Invs :
        /\ log[i].pubCalls # <<>>
        /\ TextLen(log[i].pubCalls[1].text) = DEFAULT_MAX_TWEET_LENGTH + 1
        /\ log[i].pubCalls[1].kind = "note"

\* C9 -- Fallback on rejection: when long-form publication is rejected,
\* exactly one standard publication call follows, its text no longer than
\* the ceiling that routed the text to long-form, and no call after it.
C9_FallbackWithinCeiling ==
    \A i \in Invs :
        (log[i].pubCalls # <<>> /\ log[i].pubCalls[1].outcome = "rejected") =>
            /\ Len(log[i].pubCalls) = 2
            /\ log[i].pubCalls[2].kind = "standard"
            /\ TextLen(log[i].pubCalls[2].text) <= DEFAULT_MAX_TWEET_LENGTH

\* C10 -- A run that ends on the success path has exactly one accepted
\* publication and exactly one memory record, keyed by the identifier of the
\* post published in that run.
C10_SuccessOnePostOneMemory ==
    \A i \in Invs :
        log[i].outcome = "success" =>
            /\ Cardinality(AcceptedCalls(i)) = 1
            /\ Cardinality({k \in 1..Len(log[i].writes) :
                               log[i].writes[k] = "createMemory"}) = 1
            /\ \A k \in AcceptedCalls(i) :
                   \E m \in memories :
                       m.id = stringToUuid(<<log[i].pubCalls[k].id, AgentId>>)

\* ------------------------------------------------------------ collection
\* collectTargetUsersTweets has returned and its result is still at hand
Collected(i) == pc[i] \in {"composeState1", "generate1"}

\* the members of a sequence
Range(seq) == {seq[k] : k \in 1..Len(seq)}

\* C11: no post that a fetch returned and that is a repost or older than the
\* recency window appears in the list collectTargetUsersTweets returns.
C11_CollectionFilter ==
    \A i \in Invs :
        Collected(i) =>
            \A k \in 1..Len(frame[i].fetched) :
                \A t \in Range(frame[i].fetched[k].tweets) :
                    ~IsValidTweet(t) => t \notin Range(frame[i].tweetsByUser)

\* the fetch loop of invocation i is under way
Collecting(i) == pc[i] \in {"fetch", "wait"}

\* C12 -- Fetch-failure isolation: a failing fetch does not abort the
\* collection.  While the loop runs, the fetch requests issued are the
\* accounts of the list up to the current one, each once and in list order;
\* once it is over, they are the whole list, whichever fetches failed, and
\* every post of a fetch that succeeded is in the returned list.
C12_FetchFailureIsolation ==
    \A i \in Invs :
        /\ Collecting(i) =>
              log[i].fetches = SubSeq(TWITTER_TARGET_USERS.list, 1, frame[i].idx)
        /\ (Active(i) /\ ~Collecting(i)) =>
              log[i].fetches = TWITTER_TARGET_USERS.list
        /\ Collected(i) =>
              /\ Len(frame[i].fetched) = Len(TWITTER_TARGET_USERS.list)
              /\ \A k \in 1..Len(frame[i].fetched) :
                    Range(frame[i].fetched[k].tweets)
                        \subseteq Range(frame[i].tweetsByUser)

\* the first fetch failed, the second returned posts, the collection is over
C12_Witness ==
    \E i \in Invs :
        /\ Collected(i)
        /\ Len(frame[i].fetched) = 2
        /\ frame[i].fetched[1].threw
        /\ ~frame[i].fetched[2].threw
        /\ frame[i].fetched[2].tweets # <<>>
        /\ log[i].fetches = <<1, 2>>

\* the fetches that have been requested and have not settled
FetchesInFlight == {i \in Invs : pc[i] = "fetch"}

\* this step requests a fetch for an account that is not the first of its run
RequestsLaterFetch(i) ==
    /\ Len(log[i].fetches) >= 1
    /\ log'[i].fetches = Append(log[i].fetches, TWITTER_TARGET_USERS.list[frame'[i].idx])

\* C13 -- Mandatory pacing: at most one fetch is in flight, and a fetch
\* request that follows another one of the same run is made only by the step
\* in which the randomized delay ends, also when the earlier fetch failed.
C13_MandatoryPacing ==
    /\ [](Cardinality(FetchesInFlight) <= 1)
    /\ [][\A i \in Invs : RequestsLaterFetch(i) => pc[i] = "wait"]_vars

\* the posts the fetches of invocation i returned so far
FetchedPosts(i) ==
    UNION {Range(frame[i].fetched[k].tweets) : k \in 1..Len(frame[i].fetched)}

\* per fetch of invocation i, the number of posts it returned plus the number
\* of them that pass the filter
AppendedPerFetch(i) ==
    [k \in 1..Len(frame[i].fetched) |->
        Len(frame[i].fetched[k].tweets)
            + Cardinality({j \in 1..Len(frame[i].fetched[k].tweets) :
                              IsValidTweet(frame[i].fetched[k].tweets[j])})]

\* C20 -- Duplicate append: in the list collectTargetUsersTweets builds, a
\* fetched post that is recent and not a repost occurs exactly twice, every
\* other fetched post exactly once, nothing else occurs, and the length of
\* the list is the sum over the successful fetches of the number of posts
\* fetched plus the number of posts that pass the filter.
C20_DuplicateAppend ==
    \A i \in Invs :
        (Collecting(i) \/ Collected(i)) =>
            /\ \A t \in FetchedPosts(i) :
                  Count(frame[i].tweetsByUser, t) = IF IsValidTweet(t) THEN 2 ELSE 1
            /\ Range(frame[i].tweetsByUser) \subseteq FetchedPosts(i)
            /\ Len(frame[i].tweetsByUser) = SumSeq(AppendedPerFetch(i))

\* the collection is over; one fetch returned a post that passes the filter,
\* the other two posts that do not
C20_Witness ==
    \E i \in Invs :
        /\ Collected(i)
        /\ Len(frame[i].fetched) = 2
        /\ \E t \in Range(frame[i].fetched[1].tweets) : IsValidTweet(t)
        /\ Len(frame[i].fetched[2].tweets) = 2
        /\ \A t \in Range(frame[i].fetched[2].tweets) : ~IsValidTweet(t)
        /\ Len(frame[i].tweetsByUser) = 4

\* ------------------------------------------------------------- analytics
Engagement(t) == t.likes + t.retweets

\* the positions of posts whose engagement is the greatest of the list
MostEngagedAt == {k \in 1..Len(posts) :
                    \A j \in 1..Len(posts) : Engagement(posts[j]) <= Engagement(posts[k])}
Least(S) == CHOOSE k \in S : \A j \in S : k <= j
Greatest(S) == CHOOSE k \in S : \A j \in S : j <= k

\* C14 as claimed -- findMostEngagedTweet: the sentinel for the empty list,
\* the post itself for a list of one post, otherwise a post of greatest
\* likes + retweets, and of several such posts the first-encountered one.
C14_FirstEncounteredOnTies ==
    answer.fn = "findMostEngagedTweet" =>
        /\ posts = <<>> => answer.value = Sentinel
        /\ Len(posts) = 1 => answer.value = posts[1]
        /\ posts # <<>> => answer.value = posts[Least(MostEngagedAt)]

\* C14 as amended -- findMostEngagedTweet: the sentinel for the empty list,
\* the post itself for a list of one post, otherwise a post of greatest
\* likes + retweets, and of several such posts the last-encountered one.
C14_LastEncounteredOnTies ==
    answer.fn = "findMostEngagedTweet" =>
        /\ posts = <<>> => answer.value = Sentinel
        /\ Len(posts) = 1 => answer.value = posts[1]
        /\ posts # <<>> => answer.value = posts[Greatest(MostEngagedAt)]

\* two different posts share the greatest engagement and the later one is
\* the answer
C14_Witness ==
    /\ answer.fn = "findMostEngagedTweet"
    /\ Cardinality({posts[k] : k \in MostEngagedAt}) > 1
    /\ answer.value = posts[Greatest(MostEngagedAt)]
    /\ answer.value # posts[Least(MostEngagedAt)]

\* the position at which x first occurs in seq
FirstAt(seq, x) == Least({k \in 1..Len(seq) : seq[k] = x})

\* C15 -- getTopHashtags: the result has at most limit entries and no
\* duplicates; each entry is a hashtag of the input; the entries are in
\* non-increasing order of their number of occurrences; no hashtag left out
\* occurs more often than one included; and hashtags occurring equally
\* often are in the order in which they are first encountered.
C15_TopHashtags ==
    answer.fn = "getTopHashtags" =>
        LET tags == FlatHashtags(posts)
            top == answer.value
        IN  /\ Len(top) <= answer.limit
            /\ \A j, k \in 1..Len(top) : top[j] = top[k] => j = k
            /\ Range(top) \subseteq Range(tags)
            /\ \A j, k \in 1..Len(top) :
                  j < k => Count(tags, top[j]) >= Count(tags, top[k])
            /\ \A out \in Range(tags) \ Range(top) :
                  \A k \in 1..Len(top) : Count(tags, out) <= Count(tags, top[k])
            /\ \A j, k \in 1..Len(top) :
                  (j < k /\ Count(tags, top[j]) = Count(tags, top[k]))
                      => FirstAt(tags, top[j]) < FirstAt(tags, top[k])

\* the positions of the posts whose text matches the positive lexicon, the
\* negative lexicon
MatchPositive == {k \in 1..Len(posts) : Test(PositivePattern, posts[k].text)}
MatchNegative == {k \in 1..Len(posts) : Test(NegativePattern, posts[k].text)}

\* C16 -- analyzeSentiment: the three counts add up to the number of posts;
\* positive counts the posts matching the positive lexicon, also those that
\* match the negative one as well; negative counts the posts matching the
\* negative lexicon only; neutral counts the posts matching neither.
C16_SentimentPartition ==
    answer.fn = "analyzeSentiment" =>
        /\ answer.value.positive + answer.value.neutral + answer.value.negative
              = Len(posts)
        /\ answer.value.positive = Cardinality(MatchPositive)
        /\ answer.value.negative = Cardinality(MatchNegative \ MatchPositive)
        /\ answer.value.neutral =
              Cardinality((1..Len(posts)) \ (MatchPositive \cup MatchNegative))

\* a post matching both lexicons, one matching only the negative lexicon and
\* one matching neither have been counted
C16_Witness ==
    /\ answer.fn = "analyzeSentiment"
    /\ MatchPositive \cap MatchNegative # {}
    /\ MatchNegative \ MatchPositive # {}
    /\ answer.value.neutral = 1
    /\ answer.value.positive = 1

\* ------------------------------------------------------------ end to end
\* both of two accounts yielded one recent post that is not a repost, with
\* hashtags ["AI"] and ["AI", "DeFi"]
TwoAccountsOnePostEach(i) ==
    /\ Len(frame[i].fetched) = 2
    /\ \A k \in 1..2 :
          /\ ~frame[i].fetched[k].threw
          /\ Len(frame[i].fetched[k].tweets) = 1
          /\ IsValidTweet(frame[i].fetched[k].tweets[1])
    /\ frame[i].fetched[1].tweets[1].hashtags = <<"AI">>
    /\ frame[i].fetched[2].tweets[1].hashtags = <<"AI", "DeFi">>

\* C17 -- End-to-end analytics: when two accounts each yield one recent post
\* that is not a repost, with hashtags ["AI"] and ["AI", "DeFi"], the
\* analysis the run computes from the collected list has totalTweets = 2,
\* topHashtags = ["AI", "DeFi"] and sentiment counts that add up to 2.
C17_EndToEndAnalytics ==
    \A i \in Invs :
        (Collected(i) /\ TwoAccountsOnePostEach(i)) =>
            /\ frame[i].analysis.totalTweets = 2
            /\ frame[i].analysis.topHashtags = <<"AI", "DeFi">>
            /\ frame[i].analysis.sentiment.positive
                 + frame[i].analysis.sentiment.neutral
                 + frame[i].analysis.sentiment.negative = 2

\* the trend extraction of invocation i returned text that does not parse
UnparseableSummary(i) ==
    /\ log[i].summary # Undefined
    /\ ~log[i].summary.parseable

\* C18 -- Unparseable trend output: when the output of the trend extraction
\* cannot be parsed, the run fails there: it has returned as failed, no
\* draft generation was called and nothing was published.
C18_UnparseableSummaryFailsRun ==
    \A i \in Invs :
        UnparseableSummary(i) =>
            /\ Returned(i)
            /\ log[i].outcome = "failed"
            /\ \A k \in 1..Len(log[i].genCalls) : log[i].genCalls[k].call # "draft"
            /\ log[i].pubCalls = <<>>

\* ---------------------------------------------------------- side effects
\* the publication of invocation i was accepted and its tweet object built:
\* processAndCacheTweet has been entered
SideEffectsBegun(i) == log[i].attempts # <<>>

\* C19 -- Post-publication side effects: after a successful publication the
\* side effects are attempted in the fixed order last-post cache, post
\* cache, room, participant, memory record; a failure of one neither undoes
\* nor repeats the publication, does not keep the remaining ones from being
\* attempted, and the run ends with the guard cleared.
C19_SideEffectsBestEffort ==
    \A i \in Invs :
        SideEffectsBegun(i) =>
            /\ log[i].attempts = SubSeq(SideEffects, 1, Len(log[i].attempts))
            /\ Cardinality(AcceptedCalls(i)) = 1
            /\ Returned(i) =>
                  /\ log[i].attempts = SideEffects
                  /\ ActiveRuns = {} => ~isProcessing

\* --------------------------------------------------------------- dry run
\* C21 -- Dry-run mode: when TWITTER_DRY_RUN is enabled, no run issues a
\* publication call to the platform, neither sendNoteTweet nor sendTweet.
C21_DryRunPublishesNothing ==
    isDryRun => \A i \in Invs : log[i].pubCalls = <<>>

\* ------------------------------------------------------ error propagation
\* a collaborator call of invocation i rejects in this step
CollaboratorFails(i) ==
    \/ FetchThrow(i)
    \/ ComposeStateThrow(i)
    \/ GenerateThrow(i)
    \/ NoteThrow(i)
    \/ StandardThrow(i)
    \/ SideEffectThrow(i)

\* how far invocation i has come: the fetches and delays of the loop count
\* two per account, the later awaits follow in the order of the code
Stages == <<"composeState1", "generate1", "composeState2", "generate2",
            "sendNoteTweet", "sendTweet", "lastPost", "cacheTweet",
            "ensureRoom", "ensureParticipant", "createMemory", "returned">>
Progress(i) ==
    CASE pc[i] = "idle" -> 0
      [] pc[i] = "fetch" -> 2 * frame[i].idx - 1
      [] pc[i] = "wait" -> 2 * frame[i].idx
      [] OTHER -> 2 * MaxUsers
                    + (CHOOSE k \in 1..Len(Stages) : Stages[k] = pc[i])

\* C22 -- runDailyReport never propagates an error: no invocation ends as a
\* rejected promise; whichever collaborator fails (fetch, state composition,
\* generation, publication, cache, room, memory), the invocation goes on or
\* returns normally; and every invocation made returns, so that start()
\* completes after its awaited run: an invocation that has not returned
\* always has a step to take, and each of its steps brings it further.
C22_NeverPropagates ==
    /\ [](\A i \in Invs : log[i].outcome # "rejected")
    /\ [][\A i \in Invs :
            CollaboratorFails(i) =>
                \/ Active(i)'
                \/ Returned(i)' /\ log'[i].outcome \in {"success", "failed"}]_vars
    /\ [](\A i \in Invs : Active(i) => ENABLED Step(i))
    /\ [][\A i \in Invs : Step(i) => Progress(i)' > Progress(i)]_vars

\* C22 witness: a cache, room or memory write rejected after the publication
\* was accepted, and the invocation has returned normally
C22_Witness ==
    \E i \in Invs :
        /\ Returned(i)
        /\ log[i].outcome = "success"
        /\ log[i].attempts # <<>>
        /\ Len(log[i].writes) < Len(log[i].attempts)

====
